---- MODULE Spec2Model ----
(***************************************************************************)
(* The three command-line utilities of MicrosoftForm-Report-Student:       *)
(*   calculate_grades.py   (scorer,            calcola_punteggi_e_voti)    *)
(*   create_answer_key.py  (key builder,       generate_automatic_key)     *)
(*   generate_reports.py   (report generator,  main / create_student_pdf)  *)
(* They share no memory; they compose through the files they read and      *)
(* write.  The state is the file system: the raw export, the scored file,  *)
(* the scored file of the scored file, the key file, the documents.        *)
(*                                                                         *)
(* A table is [nrows, cols], cols a sequence of [name, cells].  A column   *)
(* name is a sequence of tokens whose concatenation is the header text:    *)
(* <<"Points - ", "Q1">> is the header "Points - Q1", so prefixing is      *)
(* \o and str.startswith is a test of the first token.  A cell is the text *)
(* of the field; NaN is the empty field (pandas reads it as NaN).  Header  *)
(* names of a file read by pandas.read_csv are distinct.                   *)
(*                                                                         *)
(* Scores are counted in quarter points (1 is 4, -0.25 is -1) and grades   *)
(* in hundredths, so that every number of the program is an integer here.  *)
(***************************************************************************)
EXTENDS Integers, Sequences, FiniteSets, TLC

\* ------------------------------------------------------------ settings
PREFISSO_POINTS == "Points - "
PREFISSO_CALCOLO == "CALCOLO - "
FEEDBACK_PREFIX == "Feedback - "
POINTS_PREFIX_KEY == "Points - "
POINTS_PREFIX == "Points - "
CALCULATED_PREFIX == "CALCOLO - "
FINAL_SCORE_COLUMN == <<"Punteggio_Finale_Corretto">>
NOME_COLONNA_FINALE == <<"Punteggio_Finale_Corretto">>
NOME_COLONNA_VOTO == <<"Voto_su_10">>
STUDENT_NAME_COLUMN == <<"Nome e Cognome">>

\* ------------------------------------------------------------ bounds
MaxRows == 2
MaxCols == 4

\* ------------------------------------------------------------ values
NaN == "NaN"

Range(s) == { s[j] : j \in 1..Len(s) }

Max(a, b) == IF a >= b THEN a ELSE b

\* f"{prefix}{name}"
Prefixed(prefix, name) == <<prefix>> \o name

\* name.startswith(prefix)
StartsWith(name, prefix) == Len(name) >= 1 /\ name[1] = prefix

\* A number read from a cell: nan, or q quarter points.
NaNum == [nan |-> TRUE, q |-> 0]

Num(q) == [nan |-> FALSE, q |-> q]

\* The floats with a quarter fraction between -2 and 8 (in quarter points).
ScoreRange == (0 - 8)..32

\* str(float): 1.0 -> "1.0", -0.25 -> "-0.25", 1.75 -> "1.75"
FormatFloat(q) ==
    LET a == IF q < 0 THEN 0 - q ELSE q
        frac == CASE a % 4 = 0 -> "0"
                  [] a % 4 = 1 -> "25"
                  [] a % 4 = 2 -> "5"
                  [] OTHER     -> "75"
    IN (IF q < 0 THEN "-" ELSE "") \o ToString(a \div 4) \o "." \o frac

\* A grade in hundredths as pandas writes the float: 500 -> "5.0",
\* 375 -> "3.75", 583 -> "5.83", 1000 -> "10.0"
FormatGrade(h) ==
    LET c == h % 100
        frac == IF c % 10 = 0 THEN ToString(c \div 10)
                ELSE IF c < 10 THEN "0" \o ToString(c)
                ELSE ToString(c)
    IN ToString(h \div 100) \o "." \o frac

\* pd.to_numeric(cell, errors='coerce'): the integers Forms writes, the
\* floats the scorer writes; anything else (text, the empty field) is nan.
ToNumeric(cell) ==
    IF cell = "0" THEN Num(0)
    ELSE IF cell = "1" THEN Num(4)
    ELSE IF cell = "2" THEN Num(8)
    ELSE IF \E q \in ScoreRange : FormatFloat(q) = cell
         THEN Num(CHOOSE q \in ScoreRange : FormatFloat(q) = cell)
    ELSE NaNum

\* ------------------------------------------------------------ tables
NRows(t) == t.nrows

ColNames(t) == [j \in 1..Len(t.cols) |-> t.cols[j].name]

HasColumn(t, name) == \E j \in 1..Len(t.cols) : t.cols[j].name = name

\* df[name] for a name the table holds
ColumnByName(cols, name) ==
    cols[CHOOSE j \in 1..Len(cols) : cols[j].name = name]

\* row.get(name): the cell, or NaN for a column the row does not hold
\* (None there; both are "missing" to pd.isna and to pd.to_numeric)
RowGet(t, r, name) ==
    IF HasColumn(t, name) THEN ColumnByName(t.cols, name).cells[r] ELSE NaN

NotAllNaN(col) == \E r \in 1..Len(col.cells) : col.cells[r] # NaN

\* df.dropna(axis=1, how='all'); a table without rows loses every column
DropNa(t) == [t EXCEPT !.cols = SelectSeq(t.cols, NotAllNaN)]

NoFile == [nrows |-> 0, cols |-> <<>>]

\* ============================================================ scorer
\* calculate_grades.py

\* Punteggio with the conditions in another order: right before blank.
PunteggioGiustaPrima(risposta, points) ==
    LET cond_vuota == (risposta = NaN) \/ (risposta = "")
    IN IF points = Num(4) THEN 4
       ELSE IF cond_vuota THEN 0
       ELSE IF points = Num(0) THEN 0 - 1
       ELSE 0

\* Punteggio taking every answer without 1 point for a wrong one.
PunteggioSenzaDefault(risposta, points) ==
    LET cond_vuota == (risposta = NaN) \/ (risposta = "")
    IN IF cond_vuota THEN 0
       ELSE IF points = Num(4) THEN 4
       ELSE 0 - 1

\* np.select([cond_vuota, cond_giusta, cond_sbagliata], [0, 1, -0.25],
\* default=0) for one respondent, in quarter points.
Punteggio(risposta, points) ==
    LET cond_vuota == (risposta = NaN) \/ (risposta = "")
        cond_giusta == points = Num(4)
        cond_sbagliata == (~cond_vuota) /\ points = Num(0)
    IN IF cond_vuota THEN 0
       ELSE IF cond_giusta THEN 4
       ELSE IF cond_sbagliata THEN 0 - 1
       ELSE 0

\* The pair test by name alone: the points column is anywhere in the table.
CoppiaOvunque(cols, i) ==
    \E j \in 1..Len(cols) : cols[j].name = Prefixed(PREFISSO_POINTS, cols[i].name)

\* The pair test of the scan: the next column is "Points - " + this one.
CoppiaTrovata(cols, i) ==
    i + 1 <= Len(cols) /\ cols[i + 1].name = Prefixed(PREFISSO_POINTS, cols[i].name)

\* The series 'CALCOLO - <question>' as quarter points, one per respondent.
SerieCalcolata(domanda, points) ==
    [name |-> Prefixed(PREFISSO_CALCOLO, domanda.name),
     cells |-> [r \in 1..Len(domanda.cells) |->
                  Punteggio(domanda.cells[r], ToNumeric(points.cells[r]))]]

\* A series of floats as to_csv writes it.
ComeTesto(serie) ==
    [name |-> serie.name,
     cells |-> [r \in 1..Len(serie.cells) |-> FormatFloat(serie.cells[r])]]

\* The scan without the append of the points column to colonne_finali_list.
RECURSIVE ScansioneSenzaPoints(_, _, _)
ScansioneSenzaPoints(cols, i, acc) ==
    IF i > Len(cols) THEN acc
    ELSE IF CoppiaTrovata(cols, i)
    THEN LET domanda == cols[i]
             points == ColumnByName(cols, Prefixed(PREFISSO_POINTS, domanda.name))
             calc == SerieCalcolata(domanda, points)
         IN ScansioneSenzaPoints(cols, i + 2,
                [finali |-> acc.finali \o <<domanda, ComeTesto(calc)>>,
                 calcolate |-> Append(acc.calcolate, calc),
                 domande |-> Append(acc.domande, domanda.name)])
    ELSE ScansioneSenzaPoints(cols, i + 1, [acc EXCEPT !.finali = Append(@, cols[i])])

\* The while loop: acc holds colonne_finali_list (as written to the file),
\* colonne_calcolate_list (as numbers) and the questions found, in order.
RECURSIVE Scansione(_, _, _)
Scansione(cols, i, acc) ==
    IF i > Len(cols) THEN acc
    ELSE IF CoppiaTrovata(cols, i)
    THEN LET domanda == cols[i]
             points == ColumnByName(cols, Prefixed(PREFISSO_POINTS, domanda.name))
             calc == SerieCalcolata(domanda, points)
         IN Scansione(cols, i + 2,
                [finali |-> acc.finali \o <<domanda, points, ComeTesto(calc)>>,
                 calcolate |-> Append(acc.calcolate, calc),
                 domande |-> Append(acc.domande, domanda.name)])
    ELSE Scansione(cols, i + 1, [acc EXCEPT !.finali = Append(@, cols[i])])

ScansioneVuota == [finali |-> <<>>, calcolate |-> <<>>, domande |-> <<>>]

\* df_somma_calcolata.sum(axis=1) for respondent r
RECURSIVE Somma(_, _)
Somma(calcolate, r) ==
    IF calcolate = <<>> THEN 0
    ELSE Head(calcolate).cells[r] + Somma(Tail(calcolate), r)

\* round(x, 2) of num/den hundredths, as numpy rounds: to the nearest, a tie
\* to the even one.
Arrotonda(num, den) ==
    LET q == num \div den
        r == num % den
    IN IF 2 * r < den THEN q
       ELSE IF 2 * r > den THEN q + 1
       ELSE IF q % 2 = 0 THEN q ELSE q + 1

\* Voto without the clip.
VotoSenzaClip(punteggio_finale, numero_domande) ==
    Arrotonda(250 * punteggio_finale, numero_domande)

\* (punteggio.clip(lower=0) / numero_domande * 10).round(2), in hundredths:
\* (f/4) / n * 10 * 100 = 250 f / n
Voto(punteggio_finale, numero_domande) ==
    Arrotonda(250 * Max(punteggio_finale, 0), numero_domande)

\* df[name] = values: in place where the frame holds the name, else appended
AssegnaColonna(cols, name, cells) ==
    IF \E j \in 1..Len(cols) : cols[j].name = name
    THEN [j \in 1..Len(cols) |->
            IF cols[j].name = name THEN [name |-> name, cells |-> cells] ELSE cols[j]]
    ELSE Append(cols, [name |-> name, cells |-> cells])

\* calcola_punteggi_e_voti on a file that exists: what it leaves on disk.
\* status "error": pd.concat of an empty list raised, nothing was written.
Scorer(file) ==
    LET df_pulito == DropNa(file)
        scan == Scansione(df_pulito.cols, 1, ScansioneVuota)
        n == Len(scan.calcolate)
        finale == [r \in 1..NRows(file) |-> Somma(scan.calcolate, r)]
        con_somma == AssegnaColonna(scan.finali, NOME_COLONNA_FINALE,
                        [r \in 1..NRows(file) |-> FormatFloat(finale[r])])
        con_voto == AssegnaColonna(con_somma, NOME_COLONNA_VOTO,
                        [r \in 1..NRows(file) |-> FormatGrade(Voto(finale[r], n))])
    IN IF scan.finali = <<>>
       THEN [status |-> "error", file |-> NoFile, domande |-> <<>>,
             finale |-> <<>>, voto |-> <<>>]
       ELSE IF scan.calcolate = <<>>
       THEN [status |-> "saved", file |-> [nrows |-> NRows(file), cols |-> scan.finali],
             domande |-> <<>>, finale |-> <<>>, voto |-> <<>>]
       ELSE [status |-> "saved", file |-> [nrows |-> NRows(file), cols |-> con_voto],
             domande |-> scan.domande, finale |-> finale,
             voto |-> [r \in 1..NRows(file) |-> Voto(finale[r], n)]]

\* ============================================================ key builder
\* create_answer_key.py

\* is_correct_series = (points_series == 1)
IsCorrect(points, r) == ToNumeric(points.cells[r]) = Num(4)

\* is_correct_series.idxmax(): the first True, or the first index when none
\* is True (the caller's series has at least one row)
IdxMax(points) ==
    IF \E r \in 1..Len(points.cells) : IsCorrect(points, r)
    THEN CHOOSE r \in 1..Len(points.cells) :
            /\ IsCorrect(points, r)
            /\ \A k \in 1..(r - 1) : ~IsCorrect(points, k)
    ELSE 1

\* CorrectAnswer without the check of what idxmax found.
CorrectAnswerUnchecked(question, points) ==
    IF Len(points.cells) = 0
    THEN [found |-> FALSE, answer |-> ""]
    ELSE [found |-> TRUE, answer |-> question.cells[IdxMax(points)]]

\* The try block: the answer of the first student with 1 point; found is
\* FALSE where the except branch ran (idxmax raised on an empty series, or
\* the index found holds no 1) and the warning was printed.
CorrectAnswer(question, points) ==
    IF Len(points.cells) = 0
    THEN [found |-> FALSE, answer |-> ""]
    ELSE IF IsCorrect(points, IdxMax(points))
    THEN [found |-> TRUE, answer |-> question.cells[IdxMax(points)]]
    ELSE [found |-> FALSE, answer |-> ""]

\* The question test of the key builder's scan.
IsQuestionAt(cols, i) ==
    i + 1 <= Len(cols) /\ cols[i + 1].name = Prefixed(POINTS_PREFIX_KEY, cols[i].name)

\* The cursor without the feedback rule: 2 after every question.
SkipSempreDue(cols, i) == 2

\* How far the cursor moves after a question: 3 over a feedback column.
SkipAfterQuestion(cols, i) ==
    IF i + 2 <= Len(cols) /\ cols[i + 2].name = Prefixed(FEEDBACK_PREFIX, cols[i].name)
    THEN 3 ELSE 2

\* The while loop: acc holds key_data and the questions warned about.
RECURSIVE KeyScan(_, _, _)
KeyScan(cols, i, acc) ==
    IF i > Len(cols) THEN acc
    ELSE IF IsQuestionAt(cols, i)
    THEN LET found == CorrectAnswer(cols[i],
                         ColumnByName(cols, Prefixed(POINTS_PREFIX_KEY, cols[i].name)))
         IN KeyScan(cols, i + SkipAfterQuestion(cols, i),
                [key_data |-> Append(acc.key_data,
                                 [domanda |-> cols[i].name, risposta |-> found.answer]),
                 warnings |-> IF found.found THEN acc.warnings
                              ELSE acc.warnings \cup {cols[i].name}])
    ELSE KeyScan(cols, i + 1, acc)

\* KeyBuilder without the return of the empty key_data: the file is written.
KeyBuilderSenzaReturn(file) ==
    LET df == DropNa(file)
        scan == KeyScan(df.cols, 1, [key_data |-> <<>>, warnings |-> {}])
    IN [status |-> "saved",
        rows |-> [k \in 1..Len(scan.key_data) |->
                    [domanda |-> scan.key_data[k].domanda,
                     risposta |-> scan.key_data[k].risposta]],
        warnings |-> scan.warnings]

\* A field as to_csv writes it and read_csv reads it back: the empty string
\* and NaN are both the empty field.
CsvField(cell) == IF cell = "" THEN NaN ELSE cell

\* generate_automatic_key on a file that exists: what it leaves on disk (the
\* rows of the key file) and the warnings it printed.
KeyBuilder(file) ==
    LET df == DropNa(file)
        scan == KeyScan(df.cols, 1, [key_data |-> <<>>, warnings |-> {}])
    IN IF scan.key_data = <<>>
       THEN [status |-> "noquestions", rows |-> <<>>, warnings |-> {}]
       ELSE [status |-> "saved",
             rows |-> [k \in 1..Len(scan.key_data) |->
                         [domanda |-> scan.key_data[k].domanda,
                          risposta |-> CsvField(scan.key_data[k].risposta)]],
             warnings |-> scan.warnings]

\* ============================================================ report generator
\* generate_reports.py

\* find_question_list: every column whose "Points - " column exists anywhere
\* in the table and that is not itself a special column
IsReportQuestion(names, col_name) ==
    /\ Prefixed(POINTS_PREFIX, col_name) \in Range(names)
    /\ ~StartsWith(col_name, POINTS_PREFIX)
    /\ ~StartsWith(col_name, CALCULATED_PREFIX)
    /\ ~StartsWith(col_name, FEEDBACK_PREFIX)

RECURSIVE find_question_list(_, _)
find_question_list(names, j) ==
    IF j > Len(names) THEN <<>>
    ELSE (IF IsReportQuestion(names, names[j]) THEN <<names[j]>> ELSE <<>>)
         \o find_question_list(names, j + 1)

\* load_answer_key: the dictionary {question: answer} of a key file
load_answer_key(rows) ==
    [q \in { rows[k].domanda : k \in 1..Len(rows) } |->
        rows[CHOOSE k \in 1..Len(rows) :
                /\ rows[k].domanda = q
                /\ \A m \in (k + 1)..Len(rows) : rows[m].domanda # q].risposta]

\* str(x).strip() for the texts of the model: the whitespace-only ones
Strip(text) == IF text \in {"", " "} THEN "" ELSE text

\* pd.isna(x) or str(x).strip() == ''
IsBlank(cell) == cell = NaN \/ Strip(cell) = ""

\* student_name.replace("/", "_")...: the names of the model, by case
SafeName(name) == IF name = "A/B" THEN "A_B" ELSE name

\* The loop body of main up to the call: the name used for the file.
FileStudentName(t, r) ==
    IF IsBlank(RowGet(t, r, STUDENT_NAME_COLUMN))
    THEN "Student_ID_" \o ToString(r - 1)
    ELSE RowGet(t, r, STUDENT_NAME_COLUMN)

PdfFileName(t, r) == "Report - " \o SafeName(FileStudentName(t, r)) \o ".pdf"

\* ShowsCorrectAnswer with calculated_score <= 1.
ShowsCorrectAnswerUpToOne(score, answer_key, question) ==
    /\ ~score.nan
    /\ score.q <= 4
    /\ DOMAIN answer_key # {}
    /\ question \in DOMAIN answer_key
    /\ answer_key[question] # NaN
    /\ answer_key[question] # ""

\* The condition of the key logic: calculated_score < 1 and answer_key,
\* then correct_answer and pd.notna(correct_answer)
ShowsCorrectAnswer(score, answer_key, question) ==
    /\ ~score.nan
    /\ score.q < 4
    /\ DOMAIN answer_key # {}
    /\ question \in DOMAIN answer_key
    /\ answer_key[question] # NaN
    /\ answer_key[question] # ""

\* The paragraphs create_student_pdf adds for one question.
QuestionBlock(t, r, answer_key, question) ==
    LET student_answer == RowGet(t, r, question)
        score == ToNumeric(RowGet(t, r, Prefixed(CALCULATED_PREFIX, question)))
    IN [question |-> question,
        answer |-> IF IsBlank(student_answer) THEN "(No answer given)"
                   ELSE student_answer,
        score |-> score,
        correct_shown |-> ShowsCorrectAnswer(score, answer_key, question),
        correct |-> IF ShowsCorrectAnswer(score, answer_key, question)
                    THEN answer_key[question] ELSE NaN]

\* escape(student_name) raises AttributeError on the float NaN of an empty
\* name cell: create_student_pdf does not return.
HeaderRaises(t, r) == RowGet(t, r, STUDENT_NAME_COLUMN) = NaN

\* The story create_student_pdf hands to doc.build, for a row whose header
\* does not raise.
StudentPdf(t, r, question_list, answer_key) ==
    [index |-> r - 1,
     file |-> PdfFileName(t, r),
     header |-> RowGet(t, r, STUDENT_NAME_COLUMN),
     summary |-> HasColumn(t, FINAL_SCORE_COLUMN),
     blocks |-> [k \in 1..Len(question_list) |->
                   QuestionBlock(t, r, answer_key, question_list[k])]]

\* ============================================================ inputs
\* The raw exports the runs start from.  A family is a set of layouts, a range
\* of row counts and the texts each kind of column may hold.

Q1 == <<"Q1">>
Q2 == <<"Q2">>
Q3 == <<"Q3">>

Punti(q) == Prefixed(PREFISSO_POINTS, q)

\* The column names a layout is drawn from.
LayoutNames ==
    {STUDENT_NAME_COLUMN, Q1, Punti(Q1), Prefixed(FEEDBACK_PREFIX, Q1), Q2, Punti(Q2)}

\* Every sequence of at most k distinct names.
RECURSIVE Layouts(_)
Layouts(k) ==
    IF k = 0 THEN {<<>>}
    ELSE LET shorter == Layouts(k - 1)
         IN shorter \cup UNION { { Append(l, n) : n \in LayoutNames \ Range(l) } :
                                    l \in { p \in shorter : Len(p) = k - 1 } }

\* The answer text of respondent r (respondents answer differently).
AnswerText(r) == CASE r = 1 -> "A" [] r = 2 -> "B" [] OTHER -> "C"

\* The texts a cell of column `name`, row r may hold under domain d.
CellDom(d, name, r) ==
    IF name = STUDENT_NAME_COLUMN THEN d.nomi
    ELSE IF StartsWith(name, PREFISSO_POINTS) THEN d.punti
    ELSE IF StartsWith(name, FEEDBACK_PREFIX) THEN {"ok"}
    ELSE {AnswerText(r)} \cup d.vuote

\* Every column of n cells for `name`.
RECURSIVE ColumnsOf(_, _, _)
ColumnsOf(d, name, n) ==
    IF n = 0 THEN {<<>>}
    ELSE { Append(c, v) : c \in ColumnsOf(d, name, n - 1), v \in CellDom(d, name, n) }

\* Every table of n rows over a layout.
RECURSIVE TablesOf(_, _, _)
TablesOf(d, layout, n) ==
    IF layout = <<>> THEN {<<>>}
    ELSE { <<[name |-> Head(layout), cells |-> c]>> \o rest :
             c \in ColumnsOf(d, Head(layout), n),
             rest \in TablesOf(d, Tail(layout), n) }

Family(d, layouts, rows) ==
    UNION { { [nrows |-> n, cols |-> cs] : cs \in TablesOf(d, l, n) } :
              l \in layouts, n \in rows }

\* Any layout, one respondent with every answer right.
LayoutFamily ==
    Family([nomi |-> {"Ann"}, punti |-> {"1"}, vuote |-> {}],
           Layouts(MaxCols) \ {<<>>}, {1})

\* One question, every answer and points text.
OneQuestionFamily ==
    Family([nomi |-> {"Ann"}, punti |-> {NaN, "0", "1", "2", "x"}, vuote |-> {NaN}],
           {<<STUDENT_NAME_COLUMN, Q1, Punti(Q1)>>}, 0..MaxRows)

\* Two questions: the sums.
TwoQuestionFamily ==
    Family([nomi |-> {"Ann"}, punti |-> {"0", "1"}, vuote |-> {NaN}],
           {<<Q1, Punti(Q1), Q2, Punti(Q2)>>}, 1..MaxRows)

\* Three questions, one respondent: the grades that need rounding.
ThreeQuestionFamily ==
    Family([nomi |-> {"Ann"}, punti |-> {"0", "1"}, vuote |-> {}],
           {<<Q1, Punti(Q1), Q2, Punti(Q2), Q3, Punti(Q3)>>}, {1})

\* One question answered wrongly, every kind of name cell.
NameFamily ==
    Family([nomi |-> {NaN, " ", "A/B"}, punti |-> {"0"}, vuote |-> {}],
           {<<STUDENT_NAME_COLUMN, Q1, Punti(Q1)>>}, 1..MaxRows)

\* One question, answers of white space only.
WhitespaceFamily ==
    Family([nomi |-> {"Ann"}, punti |-> {"0", "1"}, vuote |-> {" "}],
           {<<STUDENT_NAME_COLUMN, Q1, Punti(Q1)>>}, 1..MaxRows)

\* The names of a question with its feedback column and a points column named
\* after the feedback column.
FeedbackNames ==
    {Q1, Punti(Q1), Prefixed(FEEDBACK_PREFIX, Q1), Punti(Prefixed(FEEDBACK_PREFIX, Q1))}

\* Every ordering of a set of names.
RECURSIVE Orderings(_)
Orderings(names) ==
    IF names = {} THEN {<<>>}
    ELSE UNION { { <<n>> \o l : l \in Orderings(names \ {n}) } : n \in names }

\* A question, its feedback and the feedback's points column in any order.
FeedbackFamily ==
    Family([nomi |-> {"Ann"}, punti |-> {"1"}, vuote |-> {}],
           Orderings(FeedbackNames), {1})

Inputs ==
    LayoutFamily \cup OneQuestionFamily \cup TwoQuestionFamily
        \cup ThreeQuestionFamily \cup NameFamily \cup WhitespaceFamily
        \cup FeedbackFamily

\* ============================================================ state
VARIABLES
    input,        \* the raw export on disk
    scored,       \* the scorer's run on the raw export
    rescored,     \* the scorer's run on its own output file
    key,          \* the key builder's run on the raw export
    rg_pc,        \* report generator: idle, loop, done, exit, crashed
    rg_table,     \* df_students
    rg_questions, \* question_list
    rg_key,       \* answer_key_dict
    rg_index,     \* the row of the loop (1-based position)
    rg_docs,      \* the documents written
    rg_errors     \* the rows whose build error was caught and printed

vars == <<input, scored, rescored, key, rg_pc, rg_table, rg_questions, rg_key,
          rg_index, rg_docs, rg_errors>>

NotRun == [status |-> "idle", file |-> NoFile, domande |-> <<>>,
           finale |-> <<>>, voto |-> <<>>]

KeyNotRun == [status |-> "idle", rows |-> <<>>, warnings |-> {}]

Init ==
    /\ input \in Inputs
    /\ scored = NotRun
    /\ rescored = NotRun
    /\ key = KeyNotRun
    /\ rg_pc = "idle"
    /\ rg_table = NoFile
    /\ rg_questions = <<>>
    /\ rg_key = <<>>
    /\ rg_index = 0
    /\ rg_docs = {}
    /\ rg_errors = {}

rg_vars == <<rg_pc, rg_table, rg_questions, rg_key, rg_index, rg_docs, rg_errors>>

\* python calculate_grades.py <raw export>
RunScorer ==
    /\ rg_pc = "idle"
    /\ scored.status = "idle"
    /\ scored' = Scorer(input)
    /\ UNCHANGED <<input, rescored, key, rg_vars>>

\* python calculate_grades.py <the scored file>
RerunScorer ==
    /\ rg_pc = "idle"
    /\ scored.status = "saved"
    /\ rescored.status = "idle"
    /\ rescored' = Scorer(scored.file)
    /\ UNCHANGED <<input, scored, key, rg_vars>>

\* python create_answer_key.py <raw export>
RunKeyBuilder ==
    /\ rg_pc = "idle"
    /\ key.status = "idle"
    /\ key' = KeyBuilder(input)
    /\ UNCHANGED <<input, scored, rescored, rg_vars>>

\* main up to the loop, on the scored file when there is one (else on the raw
\* export) and with the key file when there is one.
StartReports ==
    /\ rg_pc = "idle"
    /\ LET student_file == IF scored.status = "saved" THEN scored.file ELSE input
           df_students == DropNa(student_file)
           question_list == find_question_list(ColNames(df_students), 1)
       IN /\ rg_table' = df_students
          /\ rg_questions' = question_list
          /\ rg_key' = IF key.status = "saved" THEN load_answer_key(key.rows) ELSE <<>>
          /\ rg_pc' = IF question_list = <<>> THEN "exit"
                      ELSE IF ~HasColumn(df_students, STUDENT_NAME_COLUMN) THEN "exit"
                      ELSE "loop"
          /\ rg_index' = 1
    /\ UNCHANGED <<input, scored, rescored, key, rg_docs, rg_errors>>

\* One pass of the loop: the row's document.  The header may raise, which
\* nothing catches; doc.build may fail, which is caught and printed.
ReportRow ==
    /\ rg_pc = "loop"
    /\ rg_index <= NRows(rg_table)
    /\ IF HeaderRaises(rg_table, rg_index)
       THEN /\ rg_pc' = "crashed"
            /\ UNCHANGED <<rg_index, rg_docs, rg_errors>>
       ELSE /\ \E built \in BOOLEAN :
                 IF built
                 THEN /\ rg_docs' = rg_docs \cup
                            {StudentPdf(rg_table, rg_index, rg_questions, rg_key)}
                      /\ UNCHANGED rg_errors
                 ELSE /\ rg_errors' = rg_errors \cup {rg_index}
                      /\ UNCHANGED rg_docs
            /\ rg_index' = rg_index + 1
            /\ UNCHANGED rg_pc
    /\ UNCHANGED <<input, scored, rescored, key, rg_table, rg_questions, rg_key>>

\* The loop ran out of rows: "All reports generated successfully."
ReportsDone ==
    /\ rg_pc = "loop"
    /\ rg_index > NRows(rg_table)
    /\ rg_pc' = "done"
    /\ UNCHANGED <<input, scored, rescored, key, rg_table, rg_questions, rg_key,
                   rg_index, rg_docs, rg_errors>>

Next ==
    \/ RunScorer
    \/ RerunScorer
    \/ RunKeyBuilder
    \/ StartReports
    \/ ReportRow
    \/ ReportsDone

Spec == Init /\ [][Next]_vars

\* ============================================================ claims

\* The questions a finished scorer run recognised, with the file it read.
ScorerRuns ==
    { run \in { [in |-> input, out |-> scored], [in |-> scored.file, out |-> rescored] } :
        run.out.status = "saved" }

CalcCell(run, q, r) == RowGet(run.out.file, r, Prefixed(PREFISSO_CALCOLO, q))

\* C1: in every scorer run, for every recognised question and respondent, a
\* blank answer (NaN or the empty string) has the derived score 0, whatever the
\* points cell holds.
C1_BlankScoresZero ==
    \A run \in ScorerRuns :
        \A k \in 1..Len(run.out.domande), r \in 1..NRows(run.in) :
            RowGet(run.in, r, run.out.domande[k]) \in {NaN, ""}
                => CalcCell(run, run.out.domande[k], r) = "0.0"

\* A scored export holding a blank answer that carries 1 point.
C1_Witness ==
    /\ scored.status = "saved"
    /\ \E k \in 1..Len(scored.domande), r \in 1..NRows(input) :
          /\ RowGet(input, r, scored.domande[k]) = NaN
          /\ RowGet(input, r, Punti(scored.domande[k])) = "1"
          /\ CalcCell([in |-> input, out |-> scored], scored.domande[k], r) = "0.0"

\* C2: in every scorer run, for every recognised question and respondent with
\* a non-blank answer, the derived score is 1 when the points cell is the
\* number 1, -0.25 when it is the number 0, and 0 for every other points cell;
\* no derived score is outside {0, 1, -0.25}.
C2_ThreeOutcomes ==
    \A run \in ScorerRuns :
        \A k \in 1..Len(run.out.domande), r \in 1..NRows(run.in) :
            LET q == run.out.domande[k]
                points == RowGet(run.in, r, Punti(q))
                score == CalcCell(run, q, r)
            IN /\ score \in {"0.0", "1.0", "-0.25"}
               /\ RowGet(run.in, r, q) \notin {NaN, ""} =>
                     /\ points \in {"1", "1.0"} => score = "1.0"
                     /\ points \in {"0", "0.0"} => score = "-0.25"
                     /\ points \notin {"1", "1.0", "0", "0.0"} => score = "0.0"

\* A scored export with a wrong answer (-0.25) and an answered question whose
\* points cell is another number (0 by the fallback).
C2_Witness ==
    /\ scored.status = "saved"
    /\ \E k \in 1..Len(scored.domande), r1, r2 \in 1..NRows(input) :
          LET q == scored.domande[k]
              run == [in |-> input, out |-> scored]
          IN /\ RowGet(input, r1, q) # NaN /\ RowGet(input, r1, Punti(q)) = "0"
             /\ CalcCell(run, q, r1) = "-0.25"
             /\ RowGet(input, r2, q) # NaN /\ RowGet(input, r2, Punti(q)) = "2"
             /\ CalcCell(run, q, r2) = "0.0"

\* The quarter points of the derived score cells of respondent r in a file.
RECURSIVE SumOfCells(_, _, _)
SumOfCells(file, domande, r) ==
    IF domande = <<>> THEN 0
    ELSE ToNumeric(RowGet(file, r, Prefixed(PREFISSO_CALCOLO, Head(domande)))).q
            + SumOfCells(file, Tail(domande), r)

AbsDiff(a, b) == IF a >= b THEN a - b ELSE b - a

\* C3: in every scorer run with N >= 1 recognised questions, a respondent's
\* final score is the sum of the derived scores and the grade is
\* max(final, 0) / N * 10 rounded to the nearest hundredth; so a final score
\* <= 0 has grade 0, the grade lies in [0, 10] and does not decrease with the
\* final score; both are written to the file.
C3_FinalAndGrade ==
    \A run \in ScorerRuns :
        LET n == Len(run.out.domande)
            f == run.out.finale
            h == run.out.voto
        IN n >= 1 =>
            /\ \A r \in 1..NRows(run.in) :
                  /\ f[r] = SumOfCells(run.out.file, run.out.domande, r)
                  /\ 2 * AbsDiff(n * h[r], 250 * (IF f[r] > 0 THEN f[r] ELSE 0)) <= n
                  /\ f[r] <= 0 => h[r] = 0
                  /\ 0 <= h[r] /\ h[r] <= 1000
                  /\ RowGet(run.out.file, r, NOME_COLONNA_FINALE) = FormatFloat(f[r])
                  /\ RowGet(run.out.file, r, NOME_COLONNA_VOTO) = FormatGrade(h[r])
            /\ \A r1, r2 \in 1..NRows(run.in) : f[r1] <= f[r2] => h[r1] <= h[r2]

\* Two questions: one respondent with the scores [0, 1], final 1, grade 5.00,
\* another with [-0.25, 0], final -0.25, grade 0.00.
C3_Witness ==
    /\ scored.status = "saved"
    /\ Len(scored.domande) = 2
    /\ \E r1, r2 \in 1..NRows(input) :
          /\ scored.finale[r1] = 4 /\ scored.voto[r1] = 500
          /\ RowGet(scored.file, r1, NOME_COLONNA_VOTO) = "5.0"
          /\ scored.finale[r2] = 0 - 1 /\ scored.voto[r2] = 0
          /\ RowGet(scored.file, r2, NOME_COLONNA_FINALE) = "-0.25"

\* The table the key builder scans.
KeyTable == DropNa(input)

HasOnePoint(q, r) == RowGet(KeyTable, r, Prefixed(POINTS_PREFIX_KEY, q)) \in {"1", "1.0"}

\* C4: in a key file, the entry of every question is the answer of the first
\* respondent whose points cell is exactly 1; where no respondent has exactly
\* 1, the entry is blank and the warning was printed.
C4_FirstCorrectAnswer ==
    key.status = "saved" =>
        \A k \in 1..Len(key.rows) :
            LET q == key.rows[k].domanda
            IN IF \E r \in 1..NRows(KeyTable) : HasOnePoint(q, r)
               THEN /\ \E r \in 1..NRows(KeyTable) :
                          /\ HasOnePoint(q, r)
                          /\ \A e \in 1..(r - 1) : ~HasOnePoint(q, e)
                          /\ key.rows[k].risposta = RowGet(KeyTable, r, q)
                    /\ q \notin key.warnings
               ELSE /\ key.rows[k].risposta = NaN
                    /\ q \in key.warnings

\* A key file with one entry taken from the second respondent (the first one
\* answered, with 0 points) and one entry left blank with its warning.
C4_Witness ==
    /\ key.status = "saved"
    /\ NRows(KeyTable) >= 2
    /\ \E k1, k2 \in 1..Len(key.rows) :
          /\ RowGet(KeyTable, 1, key.rows[k1].domanda) = "A"
          /\ ~HasOnePoint(key.rows[k1].domanda, 1)
          /\ HasOnePoint(key.rows[k1].domanda, 2)
          /\ key.rows[k1].risposta = "B"
          /\ \A r \in 1..NRows(KeyTable) : ~HasOnePoint(key.rows[k2].domanda, r)
          /\ RowGet(KeyTable, 1, key.rows[k2].domanda) = "A"
          /\ key.rows[k2].risposta = NaN
          /\ key.rows[k2].domanda \in key.warnings

\* Q is directly followed by "Points - " + Q in a sequence of column names.
Adjacent(names, q) ==
    \E i \in 1..(Len(names) - 1) : names[i] = q /\ names[i + 1] = <<"Points - ">> \o q

\* The scorer and the key builder recognise a question only where its points
\* column is the next column of the table they scan (the file without its
\* entirely empty columns).
AdjacentInScorerAndKey ==
    /\ \A run \in ScorerRuns :
          \A k \in 1..Len(run.out.domande) :
              Adjacent(ColNames(DropNa(run.in)), run.out.domande[k])
    /\ \A k \in 1..Len(key.rows) : Adjacent(ColNames(KeyTable), key.rows[k].domanda)

\* C5 as claimed: in all three utilities a column is recognised as a question
\* only if the next column is its points column.
C5_Original ==
    /\ AdjacentInScorerAndKey
    /\ rg_pc # "idle" =>
          \A k \in 1..Len(rg_questions) : Adjacent(ColNames(rg_table), rg_questions[k])

\* C5, amended: the scorer and the key builder recognise a column only if the
\* next column is its points column; the report generator recognises exactly
\* the columns whose points column is anywhere in the table and whose own name
\* does not start with "Points - ", "CALCOLO - " or "Feedback - ".
C5_AdjacencyButReport ==
    /\ AdjacentInScorerAndKey
    /\ rg_pc # "idle" =>
          \A j \in 1..Len(rg_table.cols) :
              LET name == rg_table.cols[j].name
              IN (name \in Range(rg_questions)) <=>
                    /\ \E m \in 1..Len(rg_table.cols) :
                          rg_table.cols[m].name = <<"Points - ">> \o name
                    /\ name[1] \notin {"Points - ", "CALCOLO - ", "Feedback - "}

\* A table whose points column is not next to its question: the scorer and
\* the key builder found no question in it, the report generator reports it.
C5_Witness ==
    /\ scored.status = "saved" /\ scored.domande = <<>>
    /\ key.status = "noquestions"
    /\ rg_pc = "loop"
    /\ rg_questions = <<Q1>>
    /\ ~Adjacent(ColNames(rg_table), Q1)
    /\ rg_table = input

CountColumns(file, name) ==
    Cardinality({ j \in 1..Len(file.cols) : file.cols[j].name = name })

\* C6 as claimed: the scorer's run on its own output holds every derived score
\* column, the final score column and the grade column once, with the values
\* of the first run.
C6_RerunKeepsColumnsOnce ==
    rescored.status = "saved" =>
        \A name \in { Prefixed(PREFISSO_CALCOLO, scored.domande[k]) :
                        k \in 1..Len(scored.domande) }
                    \cup ({NOME_COLONNA_FINALE, NOME_COLONNA_VOTO}
                            \cap Range(ColNames(scored.file))) :
            /\ CountColumns(rescored.file, name) = 1
            /\ ColumnByName(rescored.file.cols, name) = ColumnByName(scored.file.cols, name)

\* The document of a row and the question of one of its blocks.
ScoreCell(d, k) ==
    RowGet(rg_table, d.index + 1, <<"CALCOLO - ">> \o d.blocks[k].question)

KeyHasAnswer(q) ==
    \E m \in 1..Len(key.rows) : key.rows[m].domanda = q /\ key.rows[m].risposta # NaN

\* C7 as claimed: the correct answer is in a document only for a derived score
\* of -0.25 with a key entry.
C7_Original ==
    \A d \in rg_docs : \A k \in 1..Len(d.blocks) :
        d.blocks[k].correct_shown =>
            ScoreCell(d, k) = "-0.25" /\ KeyHasAnswer(d.blocks[k].question)

\* C7, amended: the correct answer is in a document only when the derived
\* score is below 1 (-0.25 for a wrong answer, 0 for a blank one or for the
\* fallback) and the key has a non-blank entry for the question, and always
\* then where that entry is a text; it is not there for a score of 1 nor for
\* a missing score.  (The key entries here are texts or blank.)
C7_ShownBelowOne ==
    \A d \in rg_docs : \A k \in 1..Len(d.blocks) :
        /\ d.blocks[k].correct_shown <=>
              /\ ScoreCell(d, k) \in {"-0.25", "0.0"}
              /\ KeyHasAnswer(d.blocks[k].question)
        /\ d.blocks[k].correct_shown =>
              \E m \in 1..Len(key.rows) :
                  /\ key.rows[m].domanda = d.blocks[k].question
                  /\ key.rows[m].risposta = d.blocks[k].correct

\* A document showing the correct answer under a blank answer (score 0), and
\* in the same run a document of a right answer (score 1) without it.
C7_Witness ==
    \E d1, d2 \in rg_docs :
        /\ d1.blocks[1].answer = "(No answer given)"
        /\ ScoreCell(d1, 1) = "0.0"
        /\ d1.blocks[1].correct_shown
        /\ d1.blocks[1].correct = "A"
        /\ ScoreCell(d2, 1) = "1.0"
        /\ ~d2.blocks[1].correct_shown

\* C8 as claimed: no failure of a row's document ends the loop: once the
\* generator has stopped, it ran through, and every row has its document or
\* its caught and printed error.
C8_FailureDoesNotAbort ==
    rg_pc \in {"done", "crashed"} =>
        /\ rg_pc = "done"
        /\ \A r \in 1..NRows(rg_table) :
              r \in rg_errors \/ \E d \in rg_docs : d.index = r - 1

NameIsBlank(r) ==
    RowGet(rg_table, r, <<"Nome e Cognome">>) \in {NaN, "", " "}

\* C9 as claimed: a row with a blank name cell does not stop the generator,
\* and its document has the fallback identifier in the file name and in the
\* header.
C9_FallbackName ==
    /\ rg_pc = "crashed" => ~NameIsBlank(rg_index)
    /\ \A d \in rg_docs :
          NameIsBlank(d.index + 1) =>
              /\ d.file = "Report - Student_ID_" \o ToString(d.index) \o ".pdf"
              /\ d.header = "Student_ID_" \o ToString(d.index)

\* No question by the adjacency rule in the table the scorer and the key
\* builder scan; no question by the report generator's rule in its table.
NoPair == \A j \in 1..Len(KeyTable.cols) : ~Adjacent(ColNames(KeyTable), KeyTable.cols[j].name)

NoReportQuestion ==
    \A j \in 1..Len(rg_table.cols) :
        \/ \A m \in 1..Len(rg_table.cols) :
              rg_table.cols[m].name # <<"Points - ">> \o rg_table.cols[j].name
        \/ rg_table.cols[j].name[1] \in {"Points - ", "CALCOLO - ", "Feedback - "}

KeyAndReportAbort ==
    /\ (NoPair /\ key.status # "idle") => (key.status = "noquestions" /\ key.rows = <<>>)
    /\ (rg_pc # "idle" /\ NoReportQuestion) => (rg_pc = "exit" /\ rg_docs = {})

\* C10 as claimed: without a recognised question no utility writes its output.
C10_Original ==
    /\ KeyAndReportAbort
    /\ (NoPair /\ scored.status # "idle") => scored.status # "saved"

\* C10, amended: without a recognised question the key builder writes no key
\* file and the report generator no document; the scorer only warns and still
\* writes its output file, the non-empty input columns with no derived, final
\* score or grade column (it fails, writing nothing, only where the table has
\* no non-empty column at all).
C10_ScorerStillWrites ==
    /\ KeyAndReportAbort
    /\ (NoPair /\ scored.status # "idle") =>
          IF KeyTable.cols = <<>>
          THEN scored.status = "error" /\ scored.file = NoFile
          ELSE /\ scored.status = "saved"
               /\ scored.file = [nrows |-> NRows(input), cols |-> KeyTable.cols]

\* A table with columns and no question, after all three utilities ran.
C10_Witness ==
    /\ NoPair
    /\ input.cols # <<>>
    /\ scored.status = "saved"
    /\ key.status = "noquestions"
    /\ rg_pc = "exit"
    /\ NoReportQuestion

\* Column j of a scorer run's output was added by the run: the derived score
\* column written right after a recognised pair, or the final-score or grade
\* column where the input holds no column of that name.
AddedAt(run, j) ==
    LET cols == run.out.file.cols
    IN \/ /\ j >= 3
          /\ cols[j - 2].name \in Range(run.out.domande)
          /\ cols[j - 1].name = Punti(cols[j - 2].name)
          /\ cols[j].name = Prefixed(PREFISSO_CALCOLO, cols[j - 2].name)
       \/ /\ cols[j].name \in {NOME_COLONNA_FINALE, NOME_COLONNA_VOTO}
          /\ ~HasColumn(DropNa(run.in), cols[j].name)

\* The output columns from j on that the run did not add, in order.
RECURSIVE CarriedFrom(_, _)
CarriedFrom(run, j) ==
    IF j > Len(run.out.file.cols) THEN <<>>
    ELSE (IF AddedAt(run, j) THEN <<>> ELSE <<run.out.file.cols[j]>>)
             \o CarriedFrom(run, j + 1)

KeyQuestions == [k \in 1..Len(key.rows) |-> key.rows[k].domanda]

Feedback(q) == Prefixed(FEEDBACK_PREFIX, q)

\* Column i of a table starts a pair followed by its feedback column.
TripleAt(cols, i) ==
    /\ i + 2 <= Len(cols)
    /\ cols[i + 1].name = Punti(cols[i].name)
    /\ cols[i + 2].name = Feedback(cols[i].name)

\* The feedback column of the triple at i is followed by a points column
\* named after it.
FeedbackHasPoints(cols, i) ==
    /\ TripleAt(cols, i)
    /\ i + 3 <= Len(cols)
    /\ cols[i + 3].name = Punti(Feedback(cols[i].name))

\* C12 as claimed: the scorer and the key builder recognise the same list of
\* questions for every column sequence, and in both a feedback column that
\* directly follows a recognised pair is never taken as a question.
C12_Original ==
    (scored.status = "saved" /\ key.status = "saved") =>
        /\ scored.domande = KeyQuestions
        /\ \A i \in 1..Len(KeyTable.cols) :
              (TripleAt(KeyTable.cols, i) /\ KeyTable.cols[i].name \in Range(scored.domande))
                  => Feedback(KeyTable.cols[i].name) \notin Range(scored.domande)

\* C12: the key builder never takes as a question a feedback column that
\* directly follows a pair it recognised (its cursor moves by 3 over the
\* triple); the scorer has no feedback rule (its cursor moves by 2 after a
\* pair, by 1 otherwise), so it examines that feedback column and takes it as
\* a question exactly when the next column is 'Points - ' + its name; where no
\* feedback column after a pair is followed by such a points column, both
\* recognise the same list of questions.
C12_ScanSteps ==
    /\ key.status = "saved" =>
          \A i \in 1..Len(KeyTable.cols) :
              (TripleAt(KeyTable.cols, i) /\ KeyTable.cols[i].name \in Range(KeyQuestions))
                  => Feedback(KeyTable.cols[i].name) \notin Range(KeyQuestions)
    /\ \A run \in ScorerRuns :
          LET cols == DropNa(run.in).cols
          IN \A i \in 1..Len(cols) :
                (TripleAt(cols, i) /\ cols[i].name \in Range(run.out.domande))
                    => (Feedback(cols[i].name) \in Range(run.out.domande)
                            <=> FeedbackHasPoints(cols, i))
    /\ (scored.status = "saved" /\ key.status = "saved"
            /\ \A i \in 1..Len(KeyTable.cols) : ~FeedbackHasPoints(KeyTable.cols, i))
          => scored.domande = KeyQuestions

\* The columns Q1, Points - Q1, Feedback - Q1, Points - Feedback - Q1: the
\* scorer took Q1 and Feedback - Q1 as questions, the key builder Q1 alone.
C12_Witness ==
    /\ scored.status = "saved"
    /\ key.status = "saved"
    /\ ColNames(input) = <<Q1, Punti(Q1), Feedback(Q1), Punti(Feedback(Q1))>>
    /\ scored.domande = <<Q1, Feedback(Q1)>>
    /\ KeyQuestions = <<Q1>>

\* C13 as claimed: wherever a document made from the scored file renders an
\* answer as '(No answer given)', the scorer took that answer for blank (NaN
\* or the empty string) and its derived score is 0, never -0.25 or 1.
C13_BlankAgreement ==
    \A d \in rg_docs : \A k \in 1..Len(d.blocks) :
        (/\ d.blocks[k].answer = "(No answer given)"
         /\ d.blocks[k].question \in Range(scored.domande)
         /\ rg_table = scored.file)
            => /\ RowGet(rg_table, d.index + 1, d.blocks[k].question) \in {NaN, ""}
               /\ ScoreCell(d, k) = "0.0"

====
